---- MODULE Spec2Model ----
(***************************************************************************)
(* A model of TriadicRelationalFramework.py: the triad engine              *)
(* (compute_triad, analogy_variant, check_static_balance, chain_triads)    *)
(* and the TriadicNetwork graph (add_triad, add_connection).               *)
(*                                                                         *)
(* Three specifications share the variables:                               *)
(*   SpecEngine  one engine call on arguments drawn in Init, optionally    *)
(*               followed by the call that closes a round trip;            *)
(*   SpecChain   the loop of chain_triads, one iteration per step;         *)
(*   SpecGraph   a TriadicNetwork under add_triad / add_connection calls.  *)
(***************************************************************************)
EXTENDS Integers, Sequences, FiniteSets, Bags, TLC

VARIABLES
    \* engine: the arguments, the first call and what it returned or raised,
    \* the follow-up call and what it returned or raised
    args, pc, call, ret, call2, ret2,
    \* chain_triads: its two parameters, its locals, the loop position, the outcome
    initial_C1, triad_list, current_C1, all_K, all_steps, idx, chain_pc, chain_ret, chain_err,
    \* TriadicNetwork: graph.nodes (id -> K), graph.edges (a bag of <<from, to, weight>>),
    \* the last call made on it and the number of calls made
    nodes, edges, lastCall, calls

engineVars == <<args, pc, call, ret, call2, ret2>>
chainVars ==
    <<initial_C1, triad_list, current_C1, all_K, all_steps, idx, chain_pc, chain_ret, chain_err>>
graphVars == <<nodes, edges, lastCall, calls>>
vars == <<engineVars, chainVars, graphVars>>

----------------------------------------------------------------------------
(* Bounds *)

\* concepts C1..C4 of an engine call range over 0..MaxC (0 is the invalid input)
MaxC == 6
\* balancing coefficients a, b of an engine call range over 0..MaxCoef
MaxCoef == 4
\* the concepts of a chain_triads call range over 1..ChainMax (initial_C1 over 0..ChainMax)
ChainMax == 2
\* a triad_list holds at most MaxSteps triads
MaxSteps == 2
\* a TriadicNetwork receives at most MaxCalls calls
MaxCalls == 5

----------------------------------------------------------------------------
(* math.gcd and fractions.Fraction *)

RECURSIVE gcd2(_, _)
gcd2(x, y) == IF y = 0 THEN x ELSE gcd2(y, x % y)

\* math.gcd(*xs): the gcd of all the arguments, 0 for none
math_gcd_first_two(xs) == gcd2(xs[1], xs[2])

RECURSIVE math_gcd(_)
math_gcd(xs) == IF xs = <<>> THEN 0 ELSE gcd2(Head(xs), math_gcd(Tail(xs)))

\* Fraction(numerator, denominator) on integers with denominator > 0:
\* stored in lowest terms
Fraction(numerator, denominator) ==
    LET g == gcd2(numerator, denominator)
    IN  [numerator |-> numerator \div g, denominator |-> denominator \div g]

\* Fraction.__mul__ with an int: the int is the fraction k/1, and the product
\* of the numerators over the product of the denominators is reduced again
Fraction_mul_dropped(f, k) == f

Fraction_mul(f, k) == Fraction(f.numerator * k, f.denominator * 1)

\* int(Fraction): the quotient, truncated
Fraction_int(f) == f.numerator \div f.denominator

is_fractional_never(f) == FALSE

\* the test `C4.denominator != 1` before each raise of the non-integer error
is_fractional(f) == f.denominator # 1

\* Fraction.__str__: "n" for a whole number, "n/d" otherwise
Fraction_str(f) ==
    IF f.denominator = 1
    THEN ToString(f.numerator)
    ELSE ToString(f.numerator) \o "/" \o ToString(f.denominator)

\* the guard `all(isinstance(x, int) and x > 0 for x in [...])`
all_positive(xs) == \A i \in 1..Len(xs) : xs[i] > 0

ValueError(kind, message) == [status |-> "ValueError", kind |-> kind, message |-> message]

----------------------------------------------------------------------------
(* TriadicRelationalFramework *)

compute_triad(C1, C2, C3, a, b) ==
    IF ~all_positive(<<C1, C2, C3, a, b>>)
    THEN ValueError("InvalidInput", "All inputs must be positive integers.")
    ELSE
    LET gcd_in == math_gcd(<<C1, C2, C3>>)
        C1_prime == C1 \div gcd_in
        C2_prime == C2 \div gcd_in
        C3_prime == C3 \div gcd_in
        numerator == a * C2_prime * C3_prime
        denominator == b * C1_prime
        C4_prime == Fraction(numerator, denominator)
        C4 == Fraction_mul(C4_prime, gcd_in)
        K == Fraction(1, a * b)
    IN  IF is_fractional(C4)
        THEN ValueError("NonIntegerResult",
                 "The balancing does not result in an integer C4_prime. Adjust a, b or inputs.")
        ELSE [status |-> "ok",
              C4 |-> Fraction_int(C4),
              K |-> K,
              steps |-> [inputs |-> [C1 |-> C1, C2 |-> C2, C3 |-> C3, a |-> a, b |-> b],
                         normalization |-> [gcd_in |-> gcd_in, C1_prime |-> C1_prime,
                                            C2_prime |-> C2_prime, C3_prime |-> C3_prime],
                         transformation |-> [C4_prime |-> Fraction_str(C4_prime)],
                         denormalization |-> [C4 |-> Fraction_int(C4)],
                         K |-> Fraction_str(K)]]

\* analogy_variant dividing by the concept to add instead of the one to remove
analogy_variant_misordered(C1, C2, C3) ==
    IF ~all_positive(<<C1, C2, C3>>)
    THEN ValueError("InvalidInput", "All inputs must be positive integers.")
    ELSE
    LET gcd_in == math_gcd(<<C1, C2, C3>>)
        C1_prime == C1 \div gcd_in
        C2_prime == C2 \div gcd_in
        C3_prime == C3 \div gcd_in
        numerator == C1_prime * C2_prime
        C4_prime == Fraction(numerator, C3_prime)
        C4 == Fraction_mul(C4_prime, gcd_in)
        K == Fraction(1, 1)
    IN  IF is_fractional(C4)
        THEN ValueError("NonIntegerResult",
                 "The analogy does not result in an integer output. Check attribute mappings.")
        ELSE [status |-> "ok",
              C4 |-> Fraction_int(C4),
              K |-> K,
              steps |-> [normalization |-> [gcd_in |-> gcd_in, C1_prime |-> C1_prime,
                                            C2_prime |-> C2_prime, C3_prime |-> C3_prime],
                         transformation |-> [C4_prime |-> Fraction_str(C4_prime)],
                         denormalization |-> [C4 |-> Fraction_int(C4)],
                         K |-> Fraction_str(K)]]

analogy_variant(C1, C2, C3) ==
    IF ~all_positive(<<C1, C2, C3>>)
    THEN ValueError("InvalidInput", "All inputs must be positive integers.")
    ELSE
    LET gcd_in == math_gcd(<<C1, C2, C3>>)
        C1_prime == C1 \div gcd_in
        C2_prime == C2 \div gcd_in
        C3_prime == C3 \div gcd_in
        numerator == C1_prime * C3_prime
        C4_prime == Fraction(numerator, C2_prime)
        C4 == Fraction_mul(C4_prime, gcd_in)
        K == Fraction(1, 1)
    IN  IF is_fractional(C4)
        THEN ValueError("NonIntegerResult",
                 "The analogy does not result in an integer output. Check attribute mappings.")
        ELSE [status |-> "ok",
              C4 |-> Fraction_int(C4),
              K |-> K,
              steps |-> [normalization |-> [gcd_in |-> gcd_in, C1_prime |-> C1_prime,
                                            C2_prime |-> C2_prime, C3_prime |-> C3_prime],
                         transformation |-> [C4_prime |-> Fraction_str(C4_prime)],
                         denormalization |-> [C4 |-> Fraction_int(C4)],
                         K |-> Fraction_str(K)]]

\* check_static_balance with the ratio upside down
check_static_balance_inverted(C1, C2, C3, C4) ==
    IF ~all_positive(<<C1, C2, C3, C4>>)
    THEN ValueError("InvalidInput", "All inputs must be positive integers.")
    ELSE
    LET gcd_in == math_gcd(<<C1, C2, C3, C4>>)
        C1_prime == C1 \div gcd_in
        C2_prime == C2 \div gcd_in
        C3_prime == C3 \div gcd_in
        C4_prime == C4 \div gcd_in
        ratio == Fraction(C2_prime * C3_prime, C1_prime * C4_prime)
        gcd_ab == math_gcd(<<ratio.numerator, ratio.denominator>>)
        a == ratio.numerator \div gcd_ab
        b == ratio.denominator \div gcd_ab
        K == Fraction(1, a * b)
    IN  [status |-> "ok",
         a |-> a,
         b |-> b,
         K |-> K,
         steps |-> [inputs |-> [C1 |-> C1, C2 |-> C2, C3 |-> C3, C4 |-> C4],
                    normalization |-> [gcd_in |-> gcd_in, C1_prime |-> C1_prime,
                                       C2_prime |-> C2_prime, C3_prime |-> C3_prime,
                                       C4_prime |-> C4_prime],
                    balancing |-> [a |-> a, b |-> b],
                    K |-> Fraction_str(K)]]

check_static_balance(C1, C2, C3, C4) ==
    IF ~all_positive(<<C1, C2, C3, C4>>)
    THEN ValueError("InvalidInput", "All inputs must be positive integers.")
    ELSE
    LET gcd_in == math_gcd(<<C1, C2, C3, C4>>)
        C1_prime == C1 \div gcd_in
        C2_prime == C2 \div gcd_in
        C3_prime == C3 \div gcd_in
        C4_prime == C4 \div gcd_in
        ratio == Fraction(C1_prime * C4_prime, C2_prime * C3_prime)
        gcd_ab == math_gcd(<<ratio.numerator, ratio.denominator>>)
        a == ratio.numerator \div gcd_ab
        b == ratio.denominator \div gcd_ab
        K == Fraction(1, a * b)
    IN  [status |-> "ok",
         a |-> a,
         b |-> b,
         K |-> K,
         steps |-> [inputs |-> [C1 |-> C1, C2 |-> C2, C3 |-> C3, C4 |-> C4],
                    normalization |-> [gcd_in |-> gcd_in, C1_prime |-> C1_prime,
                                       C2_prime |-> C2_prime, C3_prime |-> C3_prime,
                                       C4_prime |-> C4_prime],
                    balancing |-> [a |-> a, b |-> b],
                    K |-> Fraction_str(K)]]

----------------------------------------------------------------------------
(* One engine call, and the call that may follow it *)

None == [status |-> "none"]

\* the calls the module makes when it is loaded (Tests 1, 2, 3 and the
\* fractional example); a field a call does not take is 1
DemoArgs ==
    { [C1 |-> 18, C2 |-> 6, C3 |-> 8, C4 |-> 1, a |-> 3, b |-> 4],
      [C1 |-> 21, C2 |-> 3, C3 |-> 5, C4 |-> 1, a |-> 1, b |-> 1],
      [C1 |-> 1,  C2 |-> 1, C3 |-> 2, C4 |-> 1, a |-> 1, b |-> 1],
      [C1 |-> 44, C2 |-> 1, C3 |-> 1, C4 |-> 1, a |-> 7, b |-> 44] }

BoundedArgs ==
    [C1 : 0..MaxC, C2 : 0..MaxC, C3 : 0..MaxC, C4 : 0..MaxC, a : 0..MaxCoef, b : 0..MaxCoef]

\* a DiGraph with no node
NoNodes == [id \in {} |-> None]

ChainIdle ==
    /\ initial_C1 = 0 /\ triad_list = <<>> /\ current_C1 = 0 /\ all_K = <<>>
    /\ all_steps = <<>> /\ idx = 0 /\ chain_pc = "idle" /\ chain_ret = None /\ chain_err = None

GraphIdle ==
    /\ nodes = NoNodes /\ edges = EmptyBag /\ lastCall = [op |-> "none"] /\ calls = 0

EngineIdle ==
    /\ args = [C1 |-> 0, C2 |-> 0, C3 |-> 0, C4 |-> 0, a |-> 0, b |-> 0]
    /\ pc = "idle" /\ call = "none" /\ ret = None /\ call2 = "none" /\ ret2 = None

InitEngine ==
    /\ args \in BoundedArgs \cup DemoArgs
    /\ pc = "start" /\ call = "none" /\ ret = None /\ call2 = "none" /\ ret2 = None
    /\ ChainIdle
    /\ GraphIdle

CallComputeTriad ==
    /\ pc = "start"
    /\ call' = "compute_triad"
    /\ ret' = compute_triad(args.C1, args.C2, args.C3, args.a, args.b)
    /\ pc' = "called"
    /\ UNCHANGED <<args, call2, ret2, chainVars, graphVars>>

CallAnalogyVariant ==
    /\ pc = "start"
    /\ call' = "analogy_variant"
    /\ ret' = analogy_variant(args.C1, args.C2, args.C3)
    /\ pc' = "called"
    /\ UNCHANGED <<args, call2, ret2, chainVars, graphVars>>

CallCheckStaticBalance ==
    /\ pc = "start"
    /\ call' = "check_static_balance"
    /\ ret' = check_static_balance(args.C1, args.C2, args.C3, args.C4)
    /\ pc' = "called"
    /\ UNCHANGED <<args, call2, ret2, chainVars, graphVars>>

\* forward then inverse: check_static_balance on the C4 compute_triad returned
ThenCheckStaticBalance ==
    /\ pc = "called" /\ call = "compute_triad" /\ ret.status = "ok"
    /\ call2' = "check_static_balance"
    /\ ret2' = check_static_balance(args.C1, args.C2, args.C3, ret.C4)
    /\ pc' = "followed"
    /\ UNCHANGED <<args, call, ret, chainVars, graphVars>>

\* inverse then forward: compute_triad on the (a, b) check_static_balance returned
ThenComputeTriad ==
    /\ pc = "called" /\ call = "check_static_balance" /\ ret.status = "ok"
    /\ call2' = "compute_triad"
    /\ ret2' = compute_triad(args.C1, args.C2, args.C3, ret.a, ret.b)
    /\ pc' = "followed"
    /\ UNCHANGED <<args, call, ret, chainVars, graphVars>>

\* analogy_variant(C1, C2, C3) beside compute_triad(C2, C1, C3, 1, 1)
ThenSwappedTriad ==
    /\ pc = "called" /\ call = "analogy_variant"
    /\ call2' = "compute_triad"
    /\ ret2' = compute_triad(args.C2, args.C1, args.C3, 1, 1)
    /\ pc' = "followed"
    /\ UNCHANGED <<args, call, ret, chainVars, graphVars>>

NextEngine ==
    \/ CallComputeTriad
    \/ CallAnalogyVariant
    \/ CallCheckStaticBalance
    \/ ThenCheckStaticBalance
    \/ ThenComputeTriad
    \/ ThenSwappedTriad

SpecEngine == InitEngine /\ [][NextEngine]_vars

----------------------------------------------------------------------------
(* chain_triads(initial_C1, triad_list), one loop iteration per step *)

\* the balancing coefficients a chain step may carry
ChainCoefs == {1, 2}

\* a step (C2, C3, a, b)
Triads == (1..ChainMax) \X (1..ChainMax) \X ChainCoefs \X ChainCoefs

TriadLists == UNION { [1..n -> Triads] : n \in 0..MaxSteps }

\* the call has been made and `current_C1 = initial_C1; all_K = []; all_steps = []` has run
InitChain ==
    /\ initial_C1 \in 0..ChainMax
    /\ triad_list \in TriadLists
    /\ current_C1 = initial_C1
    /\ all_K = <<>>
    /\ all_steps = <<>>
    /\ idx = 0
    /\ chain_pc = "loop"
    /\ chain_ret = None
    /\ chain_err = None
    /\ EngineIdle
    /\ GraphIdle

\* the loop body run on initial_C1 every time: `current_C1 = C4` is missing
ChainIterate_unchained ==
    /\ chain_pc = "loop"
    /\ idx < Len(triad_list)
    /\ LET t == triad_list[idx + 1]
           r == compute_triad(initial_C1, t[1], t[2], t[3], t[4])
       IN  IF r.status = "ok"
           THEN /\ all_K' = Append(all_K, r.K)
                /\ all_steps' = Append(all_steps, r.steps)
                /\ idx' = idx + 1
                /\ UNCHANGED <<current_C1, chain_pc, chain_err>>
           ELSE /\ chain_pc' = "raised"
                /\ chain_err' = r
                /\ UNCHANGED <<current_C1, all_K, all_steps, idx>>
    /\ UNCHANGED <<initial_C1, triad_list, chain_ret, engineVars, graphVars>>

\* one pass of `for C2, C3, a, b in triad_list`: compute_triad on current_C1;
\* its error leaves chain_triads, its result is appended and chained
ChainIterate ==
    /\ chain_pc = "loop"
    /\ idx < Len(triad_list)
    /\ LET t == triad_list[idx + 1]
           r == compute_triad(current_C1, t[1], t[2], t[3], t[4])
       IN  IF r.status = "ok"
           THEN /\ all_K' = Append(all_K, r.K)
                /\ all_steps' = Append(all_steps, r.steps)
                /\ current_C1' = r.C4
                /\ idx' = idx + 1
                /\ UNCHANGED <<chain_pc, chain_err>>
           ELSE /\ chain_pc' = "raised"
                /\ chain_err' = r
                /\ UNCHANGED <<current_C1, all_K, all_steps, idx>>
    /\ UNCHANGED <<initial_C1, triad_list, chain_ret, engineVars, graphVars>>

\* `return current_C1, all_K, all_steps` once the list is exhausted
ChainReturn ==
    /\ chain_pc = "loop"
    /\ idx = Len(triad_list)
    /\ chain_ret' = [status |-> "ok", final_C4 |-> current_C1,
                     all_K |-> all_K, all_steps |-> all_steps]
    /\ chain_pc' = "returned"
    /\ UNCHANGED <<initial_C1, triad_list, current_C1, all_K, all_steps, idx, chain_err,
                   engineVars, graphVars>>

NextChain ==
    \/ ChainIterate
    \/ ChainReturn

SpecChain == InitChain /\ [][NextChain]_vars

----------------------------------------------------------------------------
(* TriadicNetwork: an nx.DiGraph of triads *)

\* the ids a caller uses; the module's own are Delta1 and Delta2
Ids == {"Delta1", "Delta2"}

\* the (C1, C2, C3, a, b) a caller registers: the two triads the module
\* registers, a third with another K, one that does not balance and one that
\* is not positive
TriadArgs ==
    { <<18, 6, 8, 3, 4>>, <<2, 5, 10, 1, 1>>, <<2, 2, 2, 1, 2>>,
      <<44, 1, 1, 7, 44>>, <<0, 1, 1, 1, 1>> }

\* DiGraph.add_node(n, K=K): a new node, or the attribute of an old one updated
DiGraph_add_node(N, n, K) ==
    [x \in DOMAIN N \cup {n} |-> IF x = n THEN [K |-> K] ELSE N[x]]

\* a graph that keeps parallel edges (nx.MultiDiGraph): the edge is added
\* beside the ones the pair has
MultiDiGraph_add_edge(E, u, v, w) == E (+) SetToBag({<<u, v, w>>})

\* DiGraph.add_edge(u, v, weight=w): a pair holds one edge; a new call
\* on the pair updates that edge's weight
DiGraph_add_edge(E, u, v, w) ==
    LET others == { e \in BagToSet(E) : ~(e[1] = u /\ e[2] = v) }
    IN  [e \in others |-> E[e]] (+) SetToBag({<<u, v, w>>})

number_of_nodes(N) == Cardinality(DOMAIN N)

number_of_edges(E) == BagCardinality(E)

\* the number of edges from u to v
EdgesBetween(E, u, v) ==
    BagCardinality([e \in { x \in BagToSet(E) : x[1] = u /\ x[2] = v } |-> E[e]])

\* TriadicNetwork(): an empty graph
InitGraph ==
    /\ nodes = NoNodes
    /\ edges = EmptyBag
    /\ lastCall = [op |-> "none"]
    /\ calls = 0
    /\ EngineIdle
    /\ ChainIdle

\* what a call leaves in lastCall: itself, whether it raised, and the graph it found
Called(op, a1, a2, raised) ==
    [op |-> op, a1 |-> a1, a2 |-> a2, raised |-> raised,
     before |-> [nodes |-> nodes, edges |-> edges]]

\* add_triad that keeps the K of a node it already has
add_triad_first_wins(triad_id, t) ==
    /\ calls < MaxCalls
    /\ calls' = calls + 1
    /\ LET r == compute_triad(t[1], t[2], t[3], t[4], t[5])
       IN  IF r.status # "ok"
           THEN /\ lastCall' = Called("add_triad", triad_id, t, TRUE)
                /\ UNCHANGED <<nodes, edges>>
           ELSE /\ lastCall' = Called("add_triad", triad_id, t, FALSE)
                /\ nodes' = IF triad_id \in DOMAIN nodes
                            THEN nodes
                            ELSE DiGraph_add_node(nodes, triad_id, r.K)
                /\ UNCHANGED edges
    /\ UNCHANGED <<engineVars, chainVars>>

\* add_triad(triad_id, C1, C2, C3, a, b), t being (C1, C2, C3, a, b): an error
\* of compute_triad leaves before the graph is touched
add_triad(triad_id, t) ==
    /\ calls < MaxCalls
    /\ calls' = calls + 1
    /\ LET r == compute_triad(t[1], t[2], t[3], t[4], t[5])
       IN  IF r.status # "ok"
           THEN /\ lastCall' = Called("add_triad", triad_id, t, TRUE)
                /\ UNCHANGED <<nodes, edges>>
           ELSE /\ lastCall' = Called("add_triad", triad_id, t, FALSE)
                /\ nodes' = DiGraph_add_node(nodes, triad_id, r.K)
                /\ UNCHANGED edges
    /\ UNCHANGED <<engineVars, chainVars>>

\* add_connection weighting the edge with the K of to_id
add_connection_target_weight(from_id, to_id) ==
    /\ calls < MaxCalls
    /\ calls' = calls + 1
    /\ lastCall' = Called("add_connection", from_id, to_id, FALSE)
    /\ IF from_id \in DOMAIN nodes /\ to_id \in DOMAIN nodes
       THEN LET w == nodes[to_id].K
            IN  edges' = DiGraph_add_edge(edges, from_id, to_id, w)
       ELSE UNCHANGED edges
    /\ UNCHANGED <<nodes, engineVars, chainVars>>

\* add_connection that tests from_id alone: add_edge then creates the node
\* to_id, without a K
add_connection_unchecked_target(from_id, to_id) ==
    /\ calls < MaxCalls
    /\ calls' = calls + 1
    /\ lastCall' = Called("add_connection", from_id, to_id, FALSE)
    /\ IF from_id \in DOMAIN nodes
       THEN LET w == nodes[from_id].K
            IN  /\ edges' = DiGraph_add_edge(edges, from_id, to_id, w)
                /\ nodes' = [x \in DOMAIN nodes \cup {to_id} |->
                                IF x \in DOMAIN nodes THEN nodes[x] ELSE [K |-> None]]
       ELSE UNCHANGED <<nodes, edges>>
    /\ UNCHANGED <<engineVars, chainVars>>

\* add_connection(from_id, to_id): an edge weighted with the K of from_id when
\* both are nodes, nothing otherwise
add_connection(from_id, to_id) ==
    /\ calls < MaxCalls
    /\ calls' = calls + 1
    /\ lastCall' = Called("add_connection", from_id, to_id, FALSE)
    /\ IF from_id \in DOMAIN nodes /\ to_id \in DOMAIN nodes
       THEN LET w == nodes[from_id].K
            IN  edges' = DiGraph_add_edge(edges, from_id, to_id, w)
       ELSE UNCHANGED edges
    /\ UNCHANGED <<nodes, engineVars, chainVars>>

NextGraph ==
    \/ \E triad_id \in Ids, t \in TriadArgs : add_triad(triad_id, t)
    \/ \E from_id \in Ids, to_id \in Ids : add_connection(from_id, to_id)

SpecGraph == InitGraph /\ [][NextGraph]_vars

----------------------------------------------------------------------------
(* Claims about the engine, checked under SpecEngine *)

Divides(d, n) == n % d = 0

\* the greatest common divisor by its definition, not by Euclid's algorithm
GreatestCommonDivisor(S) ==
    LET least == CHOOSE n \in S : \A k \in S : n <= k
    IN  CHOOSE d \in 1..least :
            /\ \A n \in S : Divides(d, n)
            /\ \A e \in 1..least : (\A n \in S : Divides(e, n)) => e <= d

Coprime(m, n) == \A d \in 2..m : ~(Divides(d, m) /\ Divides(d, n))

PositiveArgs(fields) == \A f \in fields : args[f] > 0

\* C1: for positive C1, C2, C3, a, b with g = gcd(C1, C2, C3), compute_triad
\* returns C4 = g * (a * (C2/g) * (C3/g)) / (b * (C1/g)) when that value is a
\* whole number, and raises the non-integer-result error in every other case.
C1_ComputeTriadExact ==
    (call = "compute_triad" /\ PositiveArgs({"C1", "C2", "C3", "a", "b"})) =>
        LET g == GreatestCommonDivisor({args.C1, args.C2, args.C3})
            num == g * (args.a * (args.C2 \div g) * (args.C3 \div g))
            den == args.b * (args.C1 \div g)
        IN  IF Divides(den, num)
            THEN ret.status = "ok" /\ ret.C4 = num \div den
            ELSE ret.status = "ValueError" /\ ret.kind = "NonIntegerResult"

\* compute_triad returned a whole C4 although C4_prime alone was fractional
C1_Witness ==
    /\ call = "compute_triad"
    /\ ret.status = "ok"
    /\ ret.steps.normalization.gcd_in > 1
    /\ ret.steps.transformation.C4_prime = "1/2"
    /\ ret.C4 = 1

\* C2: when compute_triad(C1, C2, C3, a, b) succeeds with C4,
\* check_static_balance(C1, C2, C3, C4) returns co-prime (a', b') with
\* a' * b = a * b' and K' = 1/(a' * b').
C2_ForwardThenInverse ==
    (call = "compute_triad" /\ call2 = "check_static_balance") =>
        /\ ret2.status = "ok"
        /\ Coprime(ret2.a, ret2.b)
        /\ ret2.a * args.b = args.a * ret2.b
        /\ ret2.K = [numerator |-> 1, denominator |-> ret2.a * ret2.b]

\* the round trip ran on coefficients that were not in lowest terms
C2_Witness ==
    /\ call = "compute_triad" /\ call2 = "check_static_balance"
    /\ ret2.status = "ok"
    /\ ~Coprime(args.a, args.b)
    /\ ret2.a # args.a
    /\ ret2.b > 1

\* C3: for positive C1, C2, C3, C4, check_static_balance returns a co-prime
\* pair (a, b), and compute_triad(C1, C2, C3, a, b) succeeds and returns C4.
C3_InverseThenForward ==
    (call = "check_static_balance" /\ PositiveArgs({"C1", "C2", "C3", "C4"})) =>
        /\ ret.status = "ok"
        /\ Coprime(ret.a, ret.b)
        /\ call2 = "compute_triad" => (ret2.status = "ok" /\ ret2.C4 = args.C4)

\* the round trip ran on concepts with a common factor and a pair other than (1, 1)
C3_Witness ==
    /\ call = "check_static_balance" /\ call2 = "compute_triad"
    /\ ret.steps.normalization.gcd_in > 1
    /\ ret.a > 1 /\ ret.b > 1
    /\ ret2.status = "ok"

Fixture == [C1 |-> 18, C2 |-> 6, C3 |-> 8, C4 |-> 1, a |-> 3, b |-> 4]

\* C4 as the spec states it: compute_triad(18, 6, 8, 3, 4) returns C4 = 6 and K = 1/12.
C4_FixtureAsClaimed ==
    (call = "compute_triad" /\ args = Fixture) =>
        /\ ret.status = "ok"
        /\ ret.C4 = 6
        /\ ret.K = [numerator |-> 1, denominator |-> 12]

\* C4 (amended): compute_triad(18, 6, 8, 3, 4) returns C4 = 2 and K = 1/12.
C4_Fixture ==
    (call = "compute_triad" /\ args = Fixture) =>
        /\ ret.status = "ok"
        /\ ret.C4 = 2
        /\ ret.K = [numerator |-> 1, denominator |-> 12]

\* the fixture call was made
C4_Witness ==
    /\ call = "compute_triad" /\ args = Fixture
    /\ ret.status = "ok"
    /\ ret.steps.K = "1/12"

\* C10: for positive C1, C2, C3, analogy_variant(C1, C2, C3) and
\* compute_triad(C2, C1, C3, 1, 1) either return the same C4 with K = 1, or
\* both raise the non-integer-result error.
C10_AnalogyIsSwappedTriad ==
    (call = "analogy_variant" /\ call2 = "compute_triad" /\ PositiveArgs({"C1", "C2", "C3"})) =>
        \/ /\ ret.status = "ok" /\ ret2.status = "ok"
           /\ ret.C4 = ret2.C4
           /\ ret.K = [numerator |-> 1, denominator |-> 1]
           /\ ret2.K = [numerator |-> 1, denominator |-> 1]
        \/ /\ ret.status = "ValueError" /\ ret2.status = "ValueError"
           /\ ret.kind = "NonIntegerResult" /\ ret2.kind = "NonIntegerResult"

\* both calls succeeded on three different concepts with a common factor
C10_Witness ==
    /\ call = "analogy_variant" /\ call2 = "compute_triad"
    /\ ret.status = "ok" /\ ret2.status = "ok"
    /\ args.C1 # args.C2 /\ args.C2 # args.C3 /\ args.C1 # args.C3
    /\ ret.steps.normalization.gcd_in > 1

----------------------------------------------------------------------------
(* Claims about chain_triads, checked under SpecChain *)

\* what step k of the chain is due to give: compute_triad on the triad k, with
\* initial_C1 for step 1 and the C4 of step k - 1 after it
RECURSIVE StepResult(_)
StepResult(k) ==
    LET t == triad_list[k]
        C1 == IF k = 1 THEN initial_C1 ELSE StepResult(k - 1).C4
    IN  compute_triad(C1, t[1], t[2], t[3], t[4])

\* steps 1..k all succeed
RECURSIVE StepsSucceed(_)
StepsSucceed(k) == k = 0 \/ (StepsSucceed(k - 1) /\ StepResult(k).status = "ok")

\* C5: chain_triads runs compute_triad on the steps in list order, step 1 on
\* initial_C1 and each later step on the previous C4.  When every step
\* succeeds it returns the last C4 and one K = 1/(a_i * b_i) per step; when a
\* step fails the call ends with that step's error, no later step runs and
\* nothing is returned.
C5_Chain ==
    LET n == Len(triad_list) IN
    /\ chain_pc = "returned" =>
        /\ StepsSucceed(n)
        /\ chain_ret.final_C4 = (IF n = 0 THEN initial_C1 ELSE StepResult(n).C4)
        /\ Len(chain_ret.all_K) = n
        /\ \A i \in 1..n :
               chain_ret.all_K[i] =
                   [numerator |-> 1, denominator |-> triad_list[i][3] * triad_list[i][4]]
        /\ chain_err = None
    /\ chain_pc = "raised" =>
        /\ idx < n
        /\ StepsSucceed(idx)
        /\ StepResult(idx + 1).status = "ValueError"
        /\ chain_err = StepResult(idx + 1)
        /\ chain_ret = None
        /\ ~ENABLED ChainIterate
        /\ ~ENABLED ChainReturn
    /\ chain_pc = "loop" => (chain_ret = None /\ chain_err = None /\ StepsSucceed(idx))

\* a two-step chain returned, the second step having run on the first one's C4
C5_Witness ==
    /\ chain_pc = "returned"
    /\ Len(triad_list) = 2
    /\ StepResult(1).C4 # initial_C1
    /\ chain_ret.final_C4 # StepResult(1).C4
    /\ chain_ret.all_K[1] # chain_ret.all_K[2]

----------------------------------------------------------------------------
(* Claims about the TriadicNetwork, checked under SpecGraph *)

\* the last call was add_connection(a1, a2) ...
Connected == lastCall.op = "add_connection"

\* ... and found both ids among the nodes
BothWereNodes ==
    lastCall.a1 \in DOMAIN lastCall.before.nodes /\ lastCall.a2 \in DOMAIN lastCall.before.nodes

\* C6: right after add_connection(from_id, to_id) on two existing nodes, the
\* graph holds an edge from_id -> to_id whose weight is the K that from_id had
\* at the call.
C6_EdgeWeightIsSourceK ==
    (Connected /\ BothWereNodes) =>
        BagIn(<<lastCall.a1, lastCall.a2, lastCall.before.nodes[lastCall.a1].K>>, edges)

\* an edge was added between two nodes of different K
C6_Witness ==
    /\ Connected /\ BothWereNodes
    /\ lastCall.a1 # lastCall.a2
    /\ nodes[lastCall.a1].K # nodes[lastCall.a2].K
    /\ BagIn(<<lastCall.a1, lastCall.a2, nodes[lastCall.a1].K>>, edges)

\* C7: add_connection with from_id or to_id not a node raises nothing and
\* leaves the nodes, their K, the edges and their weights as they were.
C7_UnknownIdIsNoOp ==
    (Connected /\ ~BothWereNodes) =>
        /\ ~lastCall.raised
        /\ nodes = lastCall.before.nodes
        /\ edges = lastCall.before.edges

\* add_connection was called from a node to an id that is no node, in a graph with an edge
C7_Witness ==
    /\ Connected
    /\ lastCall.a1 \in DOMAIN nodes
    /\ lastCall.a2 \notin DOMAIN nodes
    /\ edges # EmptyBag

\* C8 as the spec states it: every add_connection on two existing nodes adds
\* an edge, so the number of edges grows by one.
C8_EveryConnectionAddsAnEdge ==
    (Connected /\ BothWereNodes) =>
        number_of_edges(edges) = number_of_edges(lastCall.before.edges) + 1

\* C8 (amended): an ordered pair of nodes holds at most one edge.  An
\* add_connection on two existing nodes adds an edge when the pair had none;
\* when it had one, the number of edges stays and the edge takes the K
\* from_id has now.
C8_OneEdgePerPair ==
    /\ \A u \in Ids, v \in Ids : EdgesBetween(edges, u, v) <= 1
    /\ (Connected /\ BothWereNodes) =>
        /\ number_of_edges(edges) =
              number_of_edges(lastCall.before.edges)
              + (IF EdgesBetween(lastCall.before.edges, lastCall.a1, lastCall.a2) = 0
                 THEN 1 ELSE 0)
        /\ BagIn(<<lastCall.a1, lastCall.a2, lastCall.before.nodes[lastCall.a1].K>>, edges)

\* add_connection was called on a pair that had an edge of another weight
C8_Witness ==
    /\ Connected /\ BothWereNodes
    /\ EdgesBetween(lastCall.before.edges, lastCall.a1, lastCall.a2) = 1
    /\ ~BagIn(<<lastCall.a1, lastCall.a2, nodes[lastCall.a1].K>>, lastCall.before.edges)
    /\ number_of_edges(edges) = number_of_edges(lastCall.before.edges)

\* C9: a successful add_triad(id, C1, C2, C3, a, b) on an id that is a node
\* leaves the number of nodes as it was and sets the node's K to 1/(a * b).
C9_LastWriteWins ==
    (/\ lastCall.op = "add_triad"
     /\ lastCall.a1 \in DOMAIN lastCall.before.nodes
     /\ compute_triad(lastCall.a2[1], lastCall.a2[2], lastCall.a2[3],
                      lastCall.a2[4], lastCall.a2[5]).status = "ok") =>
        /\ ~lastCall.raised
        /\ number_of_nodes(nodes) = number_of_nodes(lastCall.before.nodes)
        /\ nodes[lastCall.a1].K =
               [numerator |-> 1, denominator |-> lastCall.a2[4] * lastCall.a2[5]]

\* add_triad replaced the K of a node by another one
C9_Witness ==
    /\ lastCall.op = "add_triad"
    /\ ~lastCall.raised
    /\ lastCall.a1 \in DOMAIN lastCall.before.nodes
    /\ lastCall.before.nodes[lastCall.a1].K # nodes[lastCall.a1].K

====
